---- MODULE Spec2Model ----
(***************************************************************************)
(* The UDP receiver of udp_receiver.py and the UDP sender of udp_sender.py, *)
(* each as a state machine.                                                *)
(*                                                                         *)
(* The receiver.                                                           *)
(*                                                                         *)
(* The state is the `stats` dictionary, the locals of main() that live     *)
(* across statements, the position of main() (pc, named after the source   *)
(* line about to execute) and the activation of print_stats that is        *)
(* running, if any (mode, ps).  SIGINT is asynchronous: CPython runs the   *)
(* Python-level handler between two bytecodes of the main thread, so the   *)
(* handler may start before any statement of the loop and before any       *)
(* statement of print_stats, also of a print_stats the handler itself      *)
(* called.  A handler never returns normally (it ends in sys.exit or in    *)
(* the error print_stats raised), so an activation of print_stats or of    *)
(* the handler that was interrupted is never resumed: only what it had     *)
(* already written to `stats` and to the output remains.  The exception    *)
(* that leaves the handler is raised in main() at the interrupted          *)
(* statement (pc).                                                         *)
(*                                                                         *)
(* Time is counted in ticks, TicksPerSecond to the second.  It passes      *)
(* while the process is blocked in recvfrom.                               *)
(*                                                                         *)
(* Spec, SpecA, SpecI, SpecW and SpecQ are the same program under          *)
(* different environments: any datagrams, the datagrams of scenario A, two *)
(* interrupts, a run long enough to fill the rate window, and a quiet run  *)
(* of a few seconds.                                                       *)
(*                                                                         *)
(* The sender.  SpecS is one run of the send loop of udp_sender.py for each *)
(* command line of Sizes, Rates, Durations and --random.  Its state is the  *)
(* locals of main(), its position (s_pc) and the exception on its way out;  *)
(* Ctrl+C raises KeyboardInterrupt at whatever statement is running.  The   *)
(* clock may advance between any two statements, or not at all: time.time() *)
(* promises no resolution.  The two programs run as separate processes; in  *)
(* the receiver's specifications the sender is not started, and in SpecS    *)
(* the receiver stays in its initial state.                                 *)
(***************************************************************************)
EXTENDS Integers, Sequences, FiniteSets, TLC

\* ---------------------------------------------------------------- bounds

MaxPackets == 2       \* datagrams received in one run (Spec)
MaxSignals == 1       \* SIGINTs delivered in one run (Spec, SpecA)
MaxTime == 3          \* ticks of the clock (Spec, SpecA)
MaxPacketsI == 2      \* datagrams received in one run (SpecI)
MaxSignalsI == 2      \* SIGINTs delivered in one run (SpecI)
MaxTimeI == 2         \* ticks of the clock (SpecI)
MaxPacketsW == 1      \* datagrams received in one run (SpecW)
MaxSignalsW == 1      \* SIGINTs delivered in one run (SpecW)
MaxTimeW == 23        \* ticks of the clock (SpecW)
MaxPacketsQ == 1      \* datagrams received in one run (SpecQ)
MaxSignalsQ == 1      \* SIGINTs delivered in one run (SpecQ)
MaxTimeQ == 8         \* ticks of the clock (SpecQ)
TicksPerSecond == 2   \* the resolution of the clock
MaxSent == 11         \* datagrams sent in one run (SpecS)
MaxInterruptsS == 2   \* Ctrl+C pressed in one run (SpecS)
MaxTimeS == 3         \* ticks of the sender's clock (SpecS)

\* ------------------------------------------------------ program constants

WindowCap == 10                    \* len(one_sec_rates) > 10
TimeoutTicks == TicksPerSecond     \* sock.settimeout(1.0)
ReportTicks == TicksPerSecond      \* now - last_report_time >= 1.0

\* --------------------------------------------------------------- values

None == <<>>
Some(x) == <<x>>
IsNone(o) == o = <<>>
Val(o) == o[1]

Zero == <<0, 1>>                     \* the number 0 as a fraction <<num, den>>
Frac(n, d) == <<n, d>>
FracEq(a, b) == a[1] * b[2] = b[1] * a[2]

RECURSIVE Gcd(_, _)
Gcd(a, b) == IF b = 0 THEN a ELSE Gcd(b, a % b)

Abs(n) == IF n < 0 THEN -n ELSE n

Reduce(f) ==
    LET g == Gcd(Abs(f[1]), f[2]) IN <<f[1] \div g, f[2] \div g>>

FracAdd(a, b) == Reduce(<<a[1] * b[2] + b[1] * a[2], a[2] * b[2]>>)

\* ------------------------------------------------------------- datagrams
\* A datagram is the sequence of its bytes, each written as a one-character
\* string.

Digits == {"0", "1", "2", "3", "4", "5", "6", "7", "8", "9"}

DigitVal(c) ==
    CASE c = "0" -> 0 [] c = "1" -> 1 [] c = "2" -> 2 [] c = "3" -> 3
      [] c = "4" -> 4 [] c = "5" -> 5 [] c = "6" -> 6 [] c = "7" -> 7
      [] c = "8" -> 8 [] c = "9" -> 9

\* data.split(b':')[0]: the bytes before the first ':', all of them when
\* there is none.
RECURSIVE SplitFirst(_)
SplitFirst(d) ==
    IF d = <<>> \/ Head(d) = ":" THEN <<>>
    ELSE <<Head(d)>> \o SplitFirst(Tail(d))

RECURSIVE DigitsValue(_, _)
DigitsValue(s, acc) ==
    IF s = <<>> THEN acc
    ELSE DigitsValue(Tail(s), 10 * acc + DigitVal(Head(s)))

AllDigits(s) == s # <<>> /\ \A i \in 1..Len(s) : s[i] \in Digits

\* int(seq_str) on bytes made of the model's alphabet (digits, '-', '+', ':'
\* and the filler 'X'): an optional sign and at least one digit.  None is
\* ValueError.
ParseInt(s) ==
    IF AllDigits(s) THEN Some(DigitsValue(s, 0))
    ELSE IF s # <<>> /\ Head(s) = "-" /\ AllDigits(Tail(s))
         THEN Some(0 - DigitsValue(Tail(s), 0))
    ELSE IF s # <<>> /\ Head(s) = "+" /\ AllDigits(Tail(s))
         THEN Some(DigitsValue(Tail(s), 0))
    ELSE None

Decode(d) == ParseInt(SplitFirst(d))

\* The datagrams that arrive in Spec.
Datagrams ==
    { <<"0", ":", "X">>,          \* sequence number 0
      <<"1", ":">>,               \* sequence number 1
      <<"X", ":", "X">>,          \* prefix is not a number
      <<"2">> }                   \* no delimiter

\* The arrival order of scenario A.
ScenarioA ==
    << <<"0", ":">>, <<"1", ":">>, <<"2", ":">>, <<"1", ":">>, <<"4", ":">> >>

\* ----------------------------------------------------------------- state

VARIABLES
    \* the stats dictionary
    packets_received, bytes_received, last_seq_num, out_of_order, duplicates,
    sequence_numbers, min_seq, max_seq, last_report_time, last_packets,
    last_bytes, one_sec_rates,
    \* the process
    clock,            \* time.time(), in ticks since start_time
    pc,               \* the statement of main() about to execute
    mode,             \* "main", or who called the print_stats that is running
    ps,               \* the running activation of print_stats
    data, seq_str, seq_num,      \* locals of main()
    sock_open,        \* FALSE once sock.close() has run
    exit_exc,         \* the exception the process ended with
    \* the output
    n_periodic,       \* periodic lines printed
    final_started,    \* "--- Final Statistics ---" headers printed
    final_completed,  \* final summaries printed to their last line
    last_periodic, last_final,   \* the values of the latest report of each kind
    \* history (not read by the program)
    rx,               \* the datagrams recvfrom has returned, in order
    hist,             \* every sample ever appended to one_sec_rates, in order
    nsignals,         \* SIGINTs delivered
    pre,              \* the tracker fields when recvfrom last returned
    decoded,          \* the sequence numbers int() has returned (line 128)
    observed,         \* the sequence numbers whose accounting reached line 146
    last_shown,       \* expected, received and loss of the latest report
                      \* printed, and how many datagrams had arrived by then
    sum_deltas        \* the packet and byte deltas (lines 55-56) of all the
                      \* reports printed, added up

trackerVars ==
    <<last_seq_num, out_of_order, duplicates, sequence_numbers, min_seq,
      max_seq>>
countVars == <<packets_received, bytes_received>>
baseVars == <<last_report_time, last_packets, last_bytes>>
localVars == <<data, seq_str, seq_num>>
endVars == <<sock_open, exit_exc>>
outVars ==
    <<n_periodic, final_started, final_completed, last_periodic, last_final,
      last_shown, sum_deltas>>

rvars ==
    <<packets_received, bytes_received, last_seq_num, out_of_order, duplicates,
      sequence_numbers, min_seq, max_seq, last_report_time, last_packets,
      last_bytes, one_sec_rates, clock, pc, mode, ps, data, seq_str, seq_num,
      sock_open, exit_exc, n_periodic, final_started, final_completed,
      last_periodic, last_final, rx, hist, nsignals, pre, decoded,
      observed, last_shown, sum_deltas>>

VARIABLES
    \* the sender's command line
    packet_size, packets_per_second, duration_seconds, use_random_size,
    \* the locals of the sender's main()
    end_time, packets_sent, bytes_sent, s_last_report_time, last_packets_sent,
    last_bytes_sent, start, current_size, packet_data, duration,
    \* the sender's process
    s_clock,          \* time.time(), in ticks since line 33 ran
    s_pc,             \* the statement of main() about to execute
    s_pending,        \* the exception the finally clause will re-raise
    s_exc,            \* the exception the process ended with
    s_sock_open,      \* FALSE once sock.close() has run
    \* the sender's output
    n_rate_lines,     \* "Rate: ..." lines printed
    stopped_by_user,  \* "Stopped by user" lines printed
    summary_started,  \* "Test summary:" headers printed
    summary_completed,\* test summaries printed to their last line
    \* history (not read by the program)
    sent,             \* the latest sendto: sequence number, size, bytes
    n_interrupts,     \* Ctrl+C pressed
    late_interrupt    \* Ctrl+C pressed after the send loop was left

configVars ==
    <<packet_size, packets_per_second, duration_seconds, use_random_size>>
sendVars == <<packets_sent, bytes_sent>>
reportVars == <<s_last_report_time, last_packets_sent, last_bytes_sent>>
packetVars == <<start, current_size, packet_data>>
exitVars == <<s_pending, s_exc>>
printVars ==
    <<n_rate_lines, stopped_by_user, summary_started, summary_completed>>

svars ==
    <<packet_size, packets_per_second, duration_seconds, use_random_size,
      end_time, packets_sent, bytes_sent, s_last_report_time,
      last_packets_sent, last_bytes_sent, start, current_size, packet_data,
      duration, s_clock, s_pc, s_pending, s_exc, s_sock_open, n_rate_lines,
      stopped_by_user, summary_started, summary_completed, sent,
      n_interrupts, late_interrupt>>

vars == <<rvars, svars>>

start_time == 0

\* No activation of print_stats.
NoPs ==
    [step |-> "none", final |-> FALSE, now |-> 0, elapsed |-> 0,
     total_elapsed |-> 0, pps |-> Zero, bps |-> Zero, avg_pps |-> Zero,
     avg_bps |-> Zero, expected |-> 0, received |-> None, loss_percent |-> Zero]

\* The call print_stats(stats, final): the activation before its first
\* statement.
CallPrintStats(final) == [NoPs EXCEPT !.step = "l50", !.final = final]

Tracker ==
    [last_seq_num |-> last_seq_num, out_of_order |-> out_of_order,
     duplicates |-> duplicates, sequence_numbers |-> sequence_numbers,
     min_seq |-> min_seq, max_seq |-> max_seq,
     packets_received |-> packets_received, bytes_received |-> bytes_received]

ReceiverInit ==
    /\ packets_received = 0
    /\ bytes_received = 0
    /\ last_seq_num = None
    /\ out_of_order = 0
    /\ duplicates = 0
    /\ sequence_numbers = {}
    /\ min_seq = None
    /\ max_seq = None
    /\ last_report_time = start_time
    /\ last_packets = 0
    /\ last_bytes = 0
    /\ one_sec_rates = <<>>
    /\ clock = start_time
    /\ pc = "l121"
    /\ mode = "main"
    /\ ps = NoPs
    /\ data = <<>>
    /\ seq_str = <<>>
    /\ seq_num = None
    /\ sock_open = TRUE
    /\ exit_exc = "none"
    /\ n_periodic = 0
    /\ final_started = 0
    /\ final_completed = 0
    /\ last_periodic = None
    /\ last_final = None
    /\ rx = <<>>
    /\ hist = <<>>
    /\ nsignals = 0
    /\ pre = None
    /\ decoded = <<>>
    /\ observed = <<>>
    /\ last_shown = None
    /\ sum_deltas = <<0, 0>>

\* The sender's process does not exist.
SenderNotStarted ==
    /\ packet_size = 0
    /\ packets_per_second = 0
    /\ duration_seconds = 0
    /\ use_random_size = FALSE
    /\ end_time = 0
    /\ packets_sent = 0
    /\ bytes_sent = 0
    /\ s_last_report_time = 0
    /\ last_packets_sent = 0
    /\ last_bytes_sent = 0
    /\ start = 0
    /\ current_size = 0
    /\ packet_data = <<>>
    /\ duration = 0
    /\ s_clock = 0
    /\ s_pc = "off"
    /\ s_pending = "none"
    /\ s_exc = "none"
    /\ s_sock_open = FALSE
    /\ n_rate_lines = 0
    /\ stopped_by_user = 0
    /\ summary_started = 0
    /\ summary_completed = 0
    /\ sent = None
    /\ n_interrupts = 0
    /\ late_interrupt = FALSE

\* The receiver after line 116, about to enter the loop.
Init == ReceiverInit /\ SenderNotStarted

\* ------------------------------------------------------------ exceptions

\* The statements of the inner try block (lines 126-146).
InnerTry == {"l127", "l128", "l131", "l137", "l139", "l143", "l146"}

\* An exception raised in main() at statement pc, or raised by a signal
\* handler that interrupted main() there.  The bare except of the inner try
\* catches everything, SystemExit included, and the loop goes on; outside
\* it only KeyboardInterrupt has a handler, and the finally clause closes
\* the socket on the way out.
Raise(exc) ==
    IF pc \in InnerTry
    THEN /\ pc' = "l156"
         /\ mode' = "main"
         /\ ps' = NoPs
         /\ UNCHANGED endVars
    ELSE IF exc = "KeyboardInterrupt"
    THEN /\ pc' = "l161"
         /\ mode' = "except"
         /\ ps' = CallPrintStats(TRUE)
         /\ UNCHANGED endVars
    ELSE /\ pc' = "done"
         /\ mode' = "main"
         /\ ps' = NoPs
         /\ sock_open' = FALSE
         /\ exit_exc' = exc

\* ------------------------------------------------------------- main loop

InMain(l) == mode = "main" /\ pc = l

\* Line 121: recvfrom returns datagram d after dt ticks of waiting.
RecvFrom(d, dt, maxTime) ==
    /\ InMain("l121")
    /\ clock + dt <= maxTime
    /\ clock' = clock + dt
    /\ data' = d
    /\ rx' = Append(rx, d)
    /\ pre' = Some(Tracker)
    /\ pc' = "l122"
    /\ UNCHANGED <<trackerVars, countVars, baseVars, one_sec_rates, mode, ps,
                   seq_str, seq_num, endVars, outVars, hist, nsignals,
                   decoded, observed>>
    /\ UNCHANGED svars

\* Timeout with recvfrom giving up a tick before its timeout has passed.
TimeoutEarly(maxTime) ==
    /\ InMain("l121")
    /\ clock + TimeoutTicks - 1 <= maxTime
    /\ clock' = clock + TimeoutTicks - 1
    /\ pre' = None
    /\ pc' = "l156"
    /\ UNCHANGED <<trackerVars, countVars, baseVars, one_sec_rates, mode, ps,
                   localVars, endVars, outVars, rx, hist, nsignals, decoded,
                   observed>>
    /\ UNCHANGED svars

\* Lines 121, 151-153: recvfrom times out; except socket.timeout: pass.
Timeout(maxTime) ==
    /\ InMain("l121")
    /\ clock + TimeoutTicks <= maxTime
    /\ clock' = clock + TimeoutTicks
    /\ pre' = None
    /\ pc' = "l156"
    /\ UNCHANGED <<trackerVars, countVars, baseVars, one_sec_rates, mode, ps,
                   localVars, endVars, outVars, rx, hist, nsignals, decoded,
                   observed>>
    /\ UNCHANGED svars

\* Line 122.
CountPacket ==
    /\ InMain("l122")
    /\ packets_received' = packets_received + 1
    /\ pc' = "l123"
    /\ UNCHANGED <<bytes_received, trackerVars, baseVars, one_sec_rates, clock,
                   mode, ps, localVars, endVars, outVars, rx, hist, nsignals,
                   pre, decoded, observed>>
    /\ UNCHANGED svars

\* CountBytes adding 1 for the datagram instead of its length.
CountBytesAsOne ==
    /\ InMain("l123")
    /\ bytes_received' = bytes_received + 1
    /\ pc' = "l127"
    /\ UNCHANGED <<packets_received, trackerVars, baseVars, one_sec_rates,
                   clock, mode, ps, localVars, endVars, outVars, rx, hist,
                   nsignals, pre, decoded, observed>>
    /\ UNCHANGED svars

\* Line 123.
CountBytes ==
    /\ InMain("l123")
    /\ bytes_received' = bytes_received + Len(data)
    /\ pc' = "l127"
    /\ UNCHANGED <<packets_received, trackerVars, baseVars, one_sec_rates,
                   clock, mode, ps, localVars, endVars, outVars, rx, hist,
                   nsignals, pre, decoded, observed>>
    /\ UNCHANGED svars

\* Line 127.
SplitData ==
    /\ InMain("l127")
    /\ seq_str' = SplitFirst(data)
    /\ pc' = "l128"
    /\ UNCHANGED <<countVars, trackerVars, baseVars, one_sec_rates, clock, mode,
                   ps, data, seq_num, endVars, outVars, rx, hist, nsignals,
                   pre, decoded, observed>>
    /\ UNCHANGED svars

\* Line 128: int(seq_str), or ValueError, which the bare except catches.
ParseSeq ==
    /\ InMain("l128")
    /\ IF IsNone(ParseInt(seq_str))
       THEN Raise("ValueError") /\ UNCHANGED <<seq_num, decoded>>
       ELSE /\ seq_num' = ParseInt(seq_str)
            /\ decoded' = Append(decoded, Val(ParseInt(seq_str)))
            /\ pc' = "l131"
            /\ UNCHANGED <<mode, ps, endVars>>
    /\ UNCHANGED <<countVars, trackerVars, baseVars, one_sec_rates, clock, data,
                   seq_str, outVars, rx, hist, nsignals, pre, observed>>
    /\ UNCHANGED svars

\* UpdateSeen taking a datagram for a duplicate when it repeats the previous
\* one, not when its number is in the seen set.
UpdateSeenByLast ==
    /\ InMain("l131")
    /\ duplicates' = IF seq_num = last_seq_num THEN duplicates + 1
                     ELSE duplicates
    /\ sequence_numbers' = sequence_numbers \cup {Val(seq_num)}
    /\ pc' = "l137"
    /\ UNCHANGED <<countVars, last_seq_num, out_of_order, min_seq, max_seq,
                   baseVars, one_sec_rates, clock, mode, ps, localVars, endVars,
                   outVars, rx, hist, nsignals, pre, decoded, observed>>
    /\ UNCHANGED svars

\* Lines 131-134.
UpdateSeen ==
    /\ InMain("l131")
    /\ IF Val(seq_num) \in sequence_numbers
       THEN duplicates' = duplicates + 1 /\ UNCHANGED sequence_numbers
       ELSE /\ sequence_numbers' = sequence_numbers \cup {Val(seq_num)}
            /\ UNCHANGED duplicates
    /\ pc' = "l137"
    /\ UNCHANGED <<countVars, last_seq_num, out_of_order, min_seq, max_seq,
                   baseVars, one_sec_rates, clock, mode, ps, localVars, endVars,
                   outVars, rx, hist, nsignals, pre, decoded, observed>>
    /\ UNCHANGED svars

\* Lines 137-138.
UpdateMin ==
    /\ InMain("l137")
    /\ min_seq' = IF IsNone(min_seq) \/ Val(seq_num) < Val(min_seq)
                  THEN seq_num ELSE min_seq
    /\ pc' = "l139"
    /\ UNCHANGED <<countVars, last_seq_num, out_of_order, duplicates,
                   sequence_numbers, max_seq, baseVars, one_sec_rates, clock,
                   mode, ps, localVars, endVars, outVars, rx, hist, nsignals,
                   pre, decoded, observed>>
    /\ UNCHANGED svars

\* Lines 139-140.
UpdateMax ==
    /\ InMain("l139")
    /\ max_seq' = IF IsNone(max_seq) \/ Val(seq_num) > Val(max_seq)
                  THEN seq_num ELSE max_seq
    /\ pc' = "l143"
    /\ UNCHANGED <<countVars, last_seq_num, out_of_order, duplicates,
                   sequence_numbers, min_seq, baseVars, one_sec_rates, clock,
                   mode, ps, localVars, endVars, outVars, rx, hist, nsignals,
                   pre, decoded, observed>>
    /\ UNCHANGED svars

\* Lines 143-144.
CheckOrder ==
    /\ InMain("l143")
    /\ out_of_order' =
         IF ~IsNone(last_seq_num) /\ Val(seq_num) < Val(last_seq_num)
         THEN out_of_order + 1 ELSE out_of_order
    /\ pc' = "l146"
    /\ UNCHANGED <<countVars, last_seq_num, duplicates, sequence_numbers,
                   min_seq, max_seq, baseVars, one_sec_rates, clock, mode, ps,
                   localVars, endVars, outVars, rx, hist, nsignals,
                   pre, decoded, observed>>
    /\ UNCHANGED svars

\* Line 146.
SetLast ==
    /\ InMain("l146")
    /\ last_seq_num' = seq_num
    /\ observed' = Append(observed, Val(seq_num))
    /\ pc' = "l156"
    /\ UNCHANGED <<countVars, out_of_order, duplicates, sequence_numbers,
                   min_seq, max_seq, baseVars, one_sec_rates, clock, mode, ps,
                   localVars, endVars, outVars, rx, hist, nsignals, pre,
                   decoded>>
    /\ UNCHANGED svars

\* Lines 156-158: the periodic report is due, or the loop goes round.
CheckReport ==
    /\ InMain("l156")
    /\ IF clock - last_report_time >= ReportTicks
       THEN /\ pc' = "l158"
            /\ mode' = "periodic"
            /\ ps' = CallPrintStats(FALSE)
       ELSE /\ pc' = "l121"
            /\ UNCHANGED <<mode, ps>>
    /\ UNCHANGED <<countVars, trackerVars, baseVars, one_sec_rates, clock,
                   localVars, endVars, outVars, rx, hist, nsignals,
                   pre, decoded, observed>>
    /\ UNCHANGED svars

\* ------------------------------------------------------------ print_stats

InPs(l) == mode # "main" /\ ps.step = l

RECURSIVE FracSum(_, _)
FracSum(rates, i) ==
    IF rates = <<>> THEN Zero
    ELSE FracAdd(Head(rates)[i], FracSum(Tail(rates), i))

\* Lines 67-72: the mean of column i of the window, 0 when it is empty.
Average(rates, i) ==
    IF rates # <<>>
    THEN LET sum == FracSum(rates, i) IN Reduce(<<sum[1], sum[2] * Len(rates)>>)
    ELSE Zero

\* Lines 50-58: the clock is read, the rates of the interval are computed
\* and, when time has passed, appended to the window.
PsSample ==
    /\ InPs("l50")
    /\ LET now == clock
           elapsed == now - last_report_time
           total_elapsed == now - start_time
           pps == Frac((packets_received - last_packets) * TicksPerSecond,
                       elapsed)
           bps == Frac((bytes_received - last_bytes) * 8 * TicksPerSecond,
                       elapsed)
       IN IF elapsed > 0
          THEN /\ one_sec_rates' = Append(one_sec_rates, <<pps, bps>>)
               /\ hist' = Append(hist, <<pps, bps>>)
               /\ ps' = [ps EXCEPT !.step = "l60", !.now = now,
                                   !.elapsed = elapsed,
                                   !.total_elapsed = total_elapsed,
                                   !.pps = pps, !.bps = bps]
          ELSE /\ ps' = [ps EXCEPT !.step = "l67", !.now = now,
                                   !.elapsed = elapsed,
                                   !.total_elapsed = total_elapsed,
                                   !.pps = Zero, !.bps = Zero]
               /\ UNCHANGED <<one_sec_rates, hist>>
    /\ UNCHANGED <<countVars, trackerVars, baseVars, clock, pc, mode, localVars,
                   endVars, outVars, rx, nsignals, pre, decoded, observed>>
    /\ UNCHANGED svars

\* Lines 60-61.
PsEvict ==
    /\ InPs("l60")
    /\ one_sec_rates' = IF Len(one_sec_rates) > WindowCap
                        THEN Tail(one_sec_rates) ELSE one_sec_rates
    /\ ps' = [ps EXCEPT !.step = "l67"]
    /\ UNCHANGED <<countVars, trackerVars, baseVars, clock, pc, mode, localVars,
                   endVars, outVars, rx, hist, nsignals,
                   pre, decoded, observed>>
    /\ UNCHANGED svars

\* Lines 74-83: expected, received and loss_percent.  `received` is assigned
\* only when both bounds are set (None: the local is unbound).
Expected(lo, hi) ==
    IF ~IsNone(lo) /\ ~IsNone(hi) THEN Val(hi) - Val(lo) + 1 ELSE 0

Received(lo, hi, seen) ==
    IF ~IsNone(lo) /\ ~IsNone(hi) THEN Some(Cardinality(seen)) ELSE None

LossPercent(lo, hi, seen) ==
    IF ~IsNone(lo) /\ ~IsNone(hi) /\ Expected(lo, hi) > 0
    THEN Frac(100 * (Expected(lo, hi) - Cardinality(seen)), Expected(lo, hi))
    ELSE Zero

\* Line 94: expected - received if expected > received else 0.
Missing(expected, received) ==
    IF expected > received THEN expected - received ELSE 0

\* Lines 67-83: the averages and the loss.
PsLoss ==
    /\ InPs("l67")
    /\ ps' = [ps EXCEPT
                !.step = "l85",
                !.avg_pps = Average(one_sec_rates, 1),
                !.avg_bps = Average(one_sec_rates, 2),
                !.expected = Expected(min_seq, max_seq),
                !.received = Received(min_seq, max_seq, sequence_numbers),
                !.loss_percent =
                    LossPercent(min_seq, max_seq, sequence_numbers)]
    /\ UNCHANGED <<countVars, trackerVars, baseVars, one_sec_rates, clock, pc,
                   mode, localVars, endVars, outVars, rx, hist, nsignals, pre,
                   decoded, observed>>
    /\ UNCHANGED svars

\* The packets and bytes counted since the baseline (the operands of lines
\* 55-56).
Deltas == <<packets_received - last_packets, bytes_received - last_bytes>>

\* Lines 85-93 (the final summary down to "Expected packets") or lines
\* 102-106 (the periodic line).
PsPrint ==
    /\ InPs("l85")
    /\ IF ps.final
       THEN /\ final_started' = final_started + 1
            /\ ps' = [ps EXCEPT !.step = "l94"]
            /\ UNCHANGED <<n_periodic, last_periodic, sum_deltas>>
       ELSE /\ n_periodic' = n_periodic + 1
            /\ last_periodic' =
                 Some([pps |-> ps.pps, bps |-> ps.bps,
                       loss_percent |-> ps.loss_percent])
            /\ sum_deltas' = <<sum_deltas[1] + Deltas[1],
                               sum_deltas[2] + Deltas[2]>>
            /\ ps' = [ps EXCEPT !.step = "l108"]
            /\ UNCHANGED final_started
    /\ last_shown' = Some([expected |-> ps.expected, received |-> ps.received,
                           loss_percent |-> ps.loss_percent, at |-> Len(rx)])
    /\ UNCHANGED <<countVars, trackerVars, baseVars, one_sec_rates, clock, pc,
                   mode, localVars, endVars, final_completed, last_final, rx,
                   hist, nsignals, pre, decoded, observed>>
    /\ UNCHANGED svars

\* Lines 94-101: the rest of the final summary.  Line 94 reads `received`:
\* UnboundLocalError when the bounds were not both set.
PsPrintRest ==
    /\ InPs("l94")
    /\ IF IsNone(ps.received)
       THEN /\ Raise("UnboundLocalError")
            /\ UNCHANGED outVars
       ELSE /\ final_completed' = final_completed + 1
            /\ last_final' =
                 Some([duration |-> ps.total_elapsed,
                       packets_received |-> packets_received,
                       bytes_received |-> bytes_received,
                       rate_pps |-> IF ps.total_elapsed > 0
                                    THEN Frac(packets_received * TicksPerSecond,
                                              ps.total_elapsed)
                                    ELSE Zero,
                       rate_bps |-> IF ps.total_elapsed > 0
                                    THEN Frac(bytes_received * 8
                                                * TicksPerSecond,
                                              ps.total_elapsed)
                                    ELSE Zero,
                       min_seq |-> min_seq, max_seq |-> max_seq,
                       expected |-> ps.expected,
                       missing |-> Missing(ps.expected, Val(ps.received)),
                       duplicates |-> duplicates,
                       out_of_order |-> out_of_order,
                       loss_percent |-> ps.loss_percent,
                       history |-> one_sec_rates])
            /\ sum_deltas' = <<sum_deltas[1] + Deltas[1],
                               sum_deltas[2] + Deltas[2]>>
            /\ ps' = [ps EXCEPT !.step = "l108"]
            /\ UNCHANGED <<n_periodic, final_started, last_periodic,
                           last_shown, pc, mode, endVars>>
    /\ UNCHANGED <<countVars, trackerVars, baseVars, one_sec_rates, clock,
                   localVars, rx, hist, nsignals, pre, decoded, observed>>
    /\ UNCHANGED svars

\* Line 108.
PsSetTime ==
    /\ InPs("l108")
    /\ last_report_time' = ps.now
    /\ ps' = [ps EXCEPT !.step = "l109"]
    /\ UNCHANGED <<countVars, trackerVars, last_packets, last_bytes,
                   one_sec_rates, clock, pc, mode, localVars, endVars, outVars,
                   rx, hist, nsignals, pre, decoded, observed>>
    /\ UNCHANGED svars

\* Line 109 with the assignment the wrong way round.
PsSetPacketsReversed ==
    /\ InPs("l109")
    /\ packets_received' = last_packets
    /\ ps' = [ps EXCEPT !.step = "l110"]
    /\ UNCHANGED <<bytes_received, trackerVars, baseVars,
                   one_sec_rates, clock, pc, mode, localVars, endVars, outVars,
                   rx, hist, nsignals, pre, decoded, observed>>
    /\ UNCHANGED svars

\* Line 109.
PsSetPackets ==
    /\ InPs("l109")
    /\ last_packets' = packets_received
    /\ ps' = [ps EXCEPT !.step = "l110"]
    /\ UNCHANGED <<countVars, trackerVars, last_report_time, last_bytes,
                   one_sec_rates, clock, pc, mode, localVars, endVars, outVars,
                   rx, hist, nsignals, pre, decoded, observed>>
    /\ UNCHANGED svars

\* Line 110, and the return: to the loop (line 158 done), to the handler
\* (line 114 next), or to the except clause of line 160, which falls into
\* the finally clause.
PsSetBytes ==
    /\ InPs("l110")
    /\ last_bytes' = bytes_received
    /\ CASE mode = "periodic" ->
              /\ pc' = "l121"
              /\ mode' = "main"
              /\ ps' = NoPs
              /\ UNCHANGED endVars
         [] mode = "handler" ->
              /\ ps' = [NoPs EXCEPT !.step = "l114"]
              /\ UNCHANGED <<pc, mode, endVars>>
         [] mode = "except" ->
              /\ pc' = "done"
              /\ mode' = "main"
              /\ ps' = NoPs
              /\ sock_open' = FALSE
              /\ UNCHANGED exit_exc
    /\ UNCHANGED <<countVars, trackerVars, last_report_time, last_packets,
                   one_sec_rates, clock, localVars, outVars, rx, hist, nsignals,
                   pre, decoded, observed>>
    /\ UNCHANGED svars

\* --------------------------------------------------------- signal_handler

\* SIGINT is delivered and the handler starts (line 113 calls print_stats
\* with final=True).  While main() is blocked in recvfrom, dt ticks of the
\* wait have passed.  Whatever print_stats or handler was running is
\* abandoned.
Signal(dt, maxSignals, maxTime) ==
    /\ pc # "done"
    /\ nsignals < maxSignals
    /\ IF InMain("l121") THEN clock + dt <= maxTime ELSE dt = 0
    /\ clock' = clock + dt
    /\ nsignals' = nsignals + 1
    /\ mode' = "handler"
    /\ ps' = CallPrintStats(TRUE)
    /\ UNCHANGED <<countVars, trackerVars, baseVars, one_sec_rates, pc,
                   localVars, endVars, outVars, rx, hist,
                   pre, decoded, observed>>
    /\ UNCHANGED svars

\* Line 114: sys.exit(0) raises SystemExit in the handler.
HandlerExit ==
    /\ mode = "handler"
    /\ ps.step = "l114"
    /\ Raise("SystemExit")
    /\ UNCHANGED <<countVars, trackerVars, baseVars, one_sec_rates, clock,
                   localVars, outVars, rx, hist, nsignals,
                   pre, decoded, observed>>
    /\ UNCHANGED svars

\* --------------------------------------------------------- specifications

Step ==
    \/ CountPacket
    \/ CountBytes
    \/ SplitData
    \/ ParseSeq
    \/ UpdateSeen
    \/ UpdateMin
    \/ UpdateMax
    \/ CheckOrder
    \/ SetLast
    \/ CheckReport
    \/ PsSample
    \/ PsEvict
    \/ PsLoss
    \/ PsPrint
    \/ PsPrintRest
    \/ PsSetTime
    \/ PsSetPackets
    \/ PsSetBytes
    \/ HandlerExit

Waits == 0..(TimeoutTicks - 1)

\* Any datagram of Datagrams may arrive.
Next ==
    \/ \E d \in Datagrams, dt \in Waits :
          Len(rx) < MaxPackets /\ RecvFrom(d, dt, MaxTime)
    \/ Timeout(MaxTime)
    \/ \E dt \in Waits : Signal(dt, MaxSignals, MaxTime)
    \/ Step

Spec == Init /\ [][Next]_vars

\* The datagrams of scenario A arrive, in order.
NextA ==
    \/ \E dt \in Waits :
          /\ Len(rx) < Len(ScenarioA)
          /\ RecvFrom(ScenarioA[Len(rx) + 1], dt, MaxTime)
    \/ Timeout(MaxTime)
    \/ \E dt \in Waits : Signal(dt, MaxSignals, MaxTime)
    \/ Step

SpecA == Init /\ [][NextA]_vars

\* Two interrupts in a short run.
NextI ==
    \/ \E d \in Datagrams, dt \in Waits :
          Len(rx) < MaxPacketsI /\ RecvFrom(d, dt, MaxTimeI)
    \/ Timeout(MaxTimeI)
    \/ \E dt \in Waits : Signal(dt, MaxSignalsI, MaxTimeI)
    \/ Step

SpecI == Init /\ [][NextI]_vars

\* A long run with little traffic: the rate window fills.
NextW ==
    \/ \E d \in Datagrams, dt \in Waits :
          Len(rx) < MaxPacketsW /\ RecvFrom(d, dt, MaxTimeW)
    \/ Timeout(MaxTimeW)
    \/ \E dt \in Waits : Signal(dt, MaxSignalsW, MaxTimeW)
    \/ Step

SpecW == Init /\ [][NextW]_vars

\* A quiet run: a few seconds, at most one datagram.
NextQ ==
    \/ \E d \in Datagrams, dt \in Waits :
          Len(rx) < MaxPacketsQ /\ RecvFrom(d, dt, MaxTimeQ)
    \/ Timeout(MaxTimeQ)
    \/ \E dt \in Waits : Signal(dt, MaxSignalsQ, MaxTimeQ)
    \/ Step

SpecQ == Init /\ [][NextQ]_vars

\* ---------------------------------------------------------------- sender
\* udp_sender.py.  A statement is named after its source line.

\* The command lines of SpecS.
Sizes == {1, 2, 3, 5, 65}        \* --size
Rates == {1, 4}                  \* --rate
Durations == {0, 1}              \* --duration, in seconds

RandomLow == 64                  \* random.randint(64, packet_size)

DigitChar(n) ==
    CASE n = 0 -> "0" [] n = 1 -> "1" [] n = 2 -> "2" [] n = 3 -> "3"
      [] n = 4 -> "4" [] n = 5 -> "5" [] n = 6 -> "6" [] n = 7 -> "7"
      [] n = 8 -> "8" [] n = 9 -> "9"

\* f"{n}" for n >= 0: the decimal digits of n, most significant first.
RECURSIVE FormatInt(_)
FormatInt(n) ==
    IF n < 10 THEN <<DigitChar(n)>>
    ELSE FormatInt(n \div 10) \o <<DigitChar(n % 10)>>

\* f"{packets_sent}:"
Prefix(n) == FormatInt(n) \o <<":">>

\* b'X' * k: empty when k <= 0.
Filler(k) == IF k <= 0 THEN <<>> ELSE [i \in 1..k |-> "X"]

\* s[:k]: the first k bytes, all of s when it is shorter; for k < 0, s
\* without its last -k bytes.
SliceTo(s, k) ==
    IF k >= 0
    THEN (IF k >= Len(s) THEN s ELSE SubSeq(s, 1, k))
    ELSE (IF Len(s) + k <= 0 THEN <<>> ELSE SubSeq(s, 1, Len(s) + k))

\* Line 56: the filler before the prefix.
PacketDataPadLeft(n, size) == Filler(size - Len(Prefix(n)) - 1) \o Prefix(n)

\* Line 56: packet_data for sequence number n and size `size`.
PacketData(n, size) == Prefix(n) \o Filler(size - Len(Prefix(n)) - 1)

\* The statements inside the try block (lines 46-77), the except clause
\* (line 80) and the finally clause (lines 82-89).
TryBody == {"l46", "l47", "l50", "l56", "l59", "l60", "l61", "l64", "l75"}
ExceptClause == {"l80"}
FinallyClause == {"l82", "l83", "l84", "l88"}

\* The sender after line 43, about to enter the try block.  The clock is
\* counted from the reading of line 33.
SenderInit ==
    /\ packet_size \in Sizes
    /\ packets_per_second \in Rates
    /\ duration_seconds \in Durations
    /\ use_random_size \in BOOLEAN
    /\ end_time = duration_seconds * TicksPerSecond
    /\ packets_sent = 0
    /\ bytes_sent = 0
    /\ s_last_report_time = 0
    /\ last_packets_sent = 0
    /\ last_bytes_sent = 0
    /\ start = 0
    /\ current_size = 0
    /\ packet_data = <<>>
    /\ duration = 0
    /\ s_clock = 0
    /\ s_pc = "l46"
    /\ s_pending = "none"
    /\ s_exc = "none"
    /\ s_sock_open = TRUE
    /\ n_rate_lines = 0
    /\ stopped_by_user = 0
    /\ summary_started = 0
    /\ summary_completed = 0
    /\ sent = None
    /\ n_interrupts = 0
    /\ late_interrupt = FALSE

InitS == ReceiverInit /\ SenderInit

\* An exception raised at statement s_pc.  In the try block KeyboardInterrupt
\* goes to the except clause and anything else to the finally clause, which
\* re-raises it at its end; in the except clause it goes to the finally
\* clause; in the finally clause it ends the process there and then.
SRaise(exc) ==
    IF s_pc \in TryBody /\ exc = "KeyboardInterrupt"
    THEN /\ s_pc' = "l80"
         /\ UNCHANGED exitVars
    ELSE IF s_pc \in TryBody \cup ExceptClause
    THEN /\ s_pc' = "l82"
         /\ s_pending' = exc
         /\ UNCHANGED s_exc
    ELSE /\ s_pc' = "done"
         /\ s_exc' = exc
         /\ UNCHANGED s_pending

\* Line 46: while time.time() < end_time.
SLoopTest ==
    /\ s_pc = "l46"
    /\ s_pc' = IF s_clock < end_time THEN "l47" ELSE "l82"
    /\ UNCHANGED rvars
    /\ UNCHANGED <<configVars, end_time, sendVars, reportVars, packetVars,
                   duration, s_clock, exitVars, s_sock_open, printVars, sent,
                   n_interrupts, late_interrupt>>

\* Line 47.
SStart ==
    /\ s_pc = "l47"
    /\ start' = s_clock
    /\ s_pc' = "l50"
    /\ UNCHANGED rvars
    /\ UNCHANGED <<configVars, end_time, sendVars, reportVars, current_size,
                   packet_data, duration, s_clock, exitVars, s_sock_open,
                   printVars, sent, n_interrupts, late_interrupt>>

\* Lines 50-53: random.randint(64, packet_size) returns size, or raises
\* ValueError when the range is empty.
SChooseSize(size) ==
    /\ s_pc = "l50"
    /\ IF use_random_size
       THEN IF packet_size < RandomLow
            THEN /\ SRaise("ValueError")
                 /\ size = packet_size
                 /\ UNCHANGED current_size
            ELSE /\ size \in RandomLow..packet_size
                 /\ current_size' = size
                 /\ s_pc' = "l56"
                 /\ UNCHANGED exitVars
       ELSE /\ size = packet_size
            /\ current_size' = size
            /\ s_pc' = "l56"
            /\ UNCHANGED exitVars
    /\ UNCHANGED rvars
    /\ UNCHANGED <<configVars, end_time, sendVars, reportVars, start,
                   packet_data, duration, s_clock, s_sock_open, printVars,
                   sent, n_interrupts, late_interrupt>>

\* Line 56.
SBuild ==
    /\ s_pc = "l56"
    /\ packet_data' = PacketData(packets_sent, current_size)
    /\ s_pc' = "l59"
    /\ UNCHANGED rvars
    /\ UNCHANGED <<configVars, end_time, sendVars, reportVars, start,
                   current_size, duration, s_clock, exitVars, s_sock_open,
                   printVars, sent, n_interrupts, late_interrupt>>

\* Line 59: sendto puts packet_data[:current_size] on the wire.
SSendTo ==
    /\ s_pc = "l59"
    /\ packets_sent < MaxSent
    /\ sent' = Some([seq |-> packets_sent, size |-> current_size,
                     data |-> SliceTo(packet_data, current_size)])
    /\ s_pc' = "l60"
    /\ UNCHANGED rvars
    /\ UNCHANGED <<configVars, end_time, sendVars, reportVars, packetVars,
                   duration, s_clock, exitVars, s_sock_open, printVars,
                   n_interrupts, late_interrupt>>

\* Line 59: sendto raises OSError (no route, buffer full, ...).
SSendToFails ==
    /\ s_pc = "l59"
    /\ SRaise("OSError")
    /\ UNCHANGED rvars
    /\ UNCHANGED <<configVars, end_time, sendVars, reportVars, packetVars,
                   duration, s_clock, s_sock_open, printVars, sent,
                   n_interrupts, late_interrupt>>

\* Line 60.
SCountPacket ==
    /\ s_pc = "l60"
    /\ packets_sent' = packets_sent + 1
    /\ s_pc' = "l61"
    /\ UNCHANGED rvars
    /\ UNCHANGED <<configVars, end_time, bytes_sent, reportVars, packetVars,
                   duration, s_clock, exitVars, s_sock_open, printVars, sent,
                   n_interrupts, late_interrupt>>

\* Line 61.
SCountBytes ==
    /\ s_pc = "l61"
    /\ bytes_sent' = bytes_sent + current_size
    /\ s_pc' = "l64"
    /\ UNCHANGED rvars
    /\ UNCHANGED <<configVars, end_time, packets_sent, reportVars, packetVars,
                   duration, s_clock, exitVars, s_sock_open, printVars, sent,
                   n_interrupts, late_interrupt>>

\* Lines 64-72: the rate line, once a second.
SReport ==
    /\ s_pc = "l64"
    /\ IF s_clock - s_last_report_time >= TicksPerSecond
       THEN /\ n_rate_lines' = n_rate_lines + 1
            /\ s_last_report_time' = s_clock
            /\ last_packets_sent' = packets_sent
            /\ last_bytes_sent' = bytes_sent
       ELSE UNCHANGED <<n_rate_lines, reportVars>>
    /\ s_pc' = "l75"
    /\ UNCHANGED rvars
    /\ UNCHANGED <<configVars, end_time, sendVars, packetVars, duration,
                   s_clock, exitVars, s_sock_open, stopped_by_user,
                   summary_started, summary_completed, sent, n_interrupts,
                   late_interrupt>>

\* Lines 75-77: elapsed < interval, with interval = 1.0 / packets_per_second,
\* is elapsed * packets_per_second < 1 second; the sleep lasts the whole
\* ticks of interval - elapsed (what is left of it is time passing, STick).
SSleep ==
    /\ s_pc = "l75"
    /\ LET elapsed == s_clock - start
           left == TicksPerSecond - elapsed * packets_per_second
       IN IF left > 0
          THEN /\ s_clock + (left \div packets_per_second) <= MaxTimeS
               /\ s_clock' = s_clock + (left \div packets_per_second)
          ELSE UNCHANGED s_clock
    /\ s_pc' = "l46"
    /\ UNCHANGED rvars
    /\ UNCHANGED <<configVars, end_time, sendVars, reportVars, packetVars,
                   duration, exitVars, s_sock_open, printVars, sent,
                   n_interrupts, late_interrupt>>

\* Line 80: print("\nStopped by user").
SExcept ==
    /\ s_pc = "l80"
    /\ stopped_by_user' = stopped_by_user + 1
    /\ s_pc' = "l82"
    /\ UNCHANGED rvars
    /\ UNCHANGED <<configVars, end_time, sendVars, reportVars, packetVars,
                   duration, s_clock, exitVars, s_sock_open, n_rate_lines,
                   summary_started, summary_completed, sent, n_interrupts,
                   late_interrupt>>

\* Line 82.
SClose ==
    /\ s_pc = "l82"
    /\ s_sock_open' = FALSE
    /\ s_pc' = "l83"
    /\ UNCHANGED rvars
    /\ UNCHANGED <<configVars, end_time, sendVars, reportVars, packetVars,
                   duration, s_clock, exitVars, printVars, sent, n_interrupts,
                   late_interrupt>>

\* Line 83.
SDuration ==
    /\ s_pc = "l83"
    /\ duration' = s_clock - (end_time - duration_seconds * TicksPerSecond)
    /\ s_pc' = "l84"
    /\ UNCHANGED rvars
    /\ UNCHANGED <<configVars, end_time, sendVars, reportVars, packetVars,
                   s_clock, exitVars, s_sock_open, printVars, sent,
                   n_interrupts, late_interrupt>>

\* Lines 84-87: the summary down to "Bytes sent".
SSummaryHead ==
    /\ s_pc = "l84"
    /\ summary_started' = summary_started + 1
    /\ s_pc' = "l88"
    /\ UNCHANGED rvars
    /\ UNCHANGED <<configVars, end_time, sendVars, reportVars, packetVars,
                   duration, s_clock, exitVars, s_sock_open, n_rate_lines,
                   stopped_by_user, summary_completed, sent, n_interrupts,
                   late_interrupt>>

\* Lines 88-89: the two averages divide by duration (ZeroDivisionError when
\* it is 0); then the finally clause ends and re-raises what it held.
SSummaryRates ==
    /\ s_pc = "l88"
    /\ IF duration = 0
       THEN /\ SRaise("ZeroDivisionError")
            /\ UNCHANGED summary_completed
       ELSE /\ summary_completed' = summary_completed + 1
            /\ s_pc' = "done"
            /\ s_exc' = s_pending
            /\ UNCHANGED s_pending
    /\ UNCHANGED rvars
    /\ UNCHANGED <<configVars, end_time, sendVars, reportVars, packetVars,
                   duration, s_clock, s_sock_open, n_rate_lines,
                   stopped_by_user, summary_started, sent, n_interrupts,
                   late_interrupt>>

\* Ctrl+C: the default SIGINT handler raises KeyboardInterrupt in main() at
\* the statement that is running.
SInterrupt ==
    /\ s_pc \notin {"off", "done"}
    /\ n_interrupts < MaxInterruptsS
    /\ n_interrupts' = n_interrupts + 1
    /\ late_interrupt' = (late_interrupt \/ s_pc \notin TryBody)
    /\ SRaise("KeyboardInterrupt")
    /\ UNCHANGED rvars
    /\ UNCHANGED <<configVars, end_time, sendVars, reportVars, packetVars,
                   duration, s_clock, s_sock_open, printVars, sent>>

\* Time passes while a statement runs.
STick ==
    /\ s_pc \notin {"off", "done"}
    /\ s_clock < MaxTimeS
    /\ s_clock' = s_clock + 1
    /\ UNCHANGED rvars
    /\ UNCHANGED <<configVars, end_time, sendVars, reportVars, packetVars,
                   duration, s_pc, exitVars, s_sock_open, printVars, sent,
                   n_interrupts, late_interrupt>>

NextS ==
    \/ SLoopTest
    \/ SStart
    \/ \E size \in Sizes \cup {RandomLow} : SChooseSize(size)
    \/ SBuild
    \/ SSendTo
    \/ SSendToFails
    \/ SCountPacket
    \/ SCountBytes
    \/ SReport
    \/ SSleep
    \/ SExcept
    \/ SClose
    \/ SDuration
    \/ SSummaryHead
    \/ SSummaryRates
    \/ SInterrupt
    \/ STick

SpecS == InitS /\ [][NextS]_vars

\* ------------------------------------------------ accounting, as a whole
\* What lines 122-149 make of one datagram when nothing interrupts them.

Tracker0 ==
    [last_seq_num |-> None, out_of_order |-> 0, duplicates |-> 0,
     sequence_numbers |-> {}, min_seq |-> None, max_seq |-> None,
     packets_received |-> 0, bytes_received |-> 0]

\* Lines 131-146 for sequence number n.
Observe(t, n) ==
    [t EXCEPT
       !.duplicates = IF n \in t.sequence_numbers THEN @ + 1 ELSE @,
       !.sequence_numbers = @ \cup {n},
       !.min_seq = IF IsNone(@) \/ n < Val(@) THEN Some(n) ELSE @,
       !.max_seq = IF IsNone(@) \/ n > Val(@) THEN Some(n) ELSE @,
       !.out_of_order =
           IF ~IsNone(t.last_seq_num) /\ n < Val(t.last_seq_num)
           THEN @ + 1 ELSE @,
       !.last_seq_num = Some(n)]

\* Lines 122-149 for datagram d.
Account(t, d) ==
    LET counted == [t EXCEPT !.packets_received = @ + 1,
                             !.bytes_received = @ + Len(d)]
    IN IF IsNone(Decode(d)) THEN counted
       ELSE Observe(counted, Val(Decode(d)))

RECURSIVE AccountAll(_)
AccountAll(log) ==
    IF log = <<>> THEN Tracker0
    ELSE Account(AccountAll(SubSeq(log, 1, Len(log) - 1)), log[Len(log)])

\* ----------------------------------------------------------------- claims

\* Between two iterations of the receive loop.
AtLoopBoundary == mode = "main" /\ pc \in {"l121", "l156"}

\* The entries of a sequence that repeat an earlier entry.
Repeats(q) ==
    Cardinality({i \in 1..Len(q) : \E j \in 1..(i - 1) : q[j] = q[i]})

SetMin(S) == CHOOSE x \in S : \A y \in S : x <= y
SetMax(S) == CHOOSE x \in S : \A y \in S : x >= y
Max(a, b) == IF a >= b THEN a ELSE b

\* C1: whatever interrupts arrive and wherever, the final summary is printed
\* at most once in a run.
C1_FinalSummaryAtMostOnce == final_completed <= 1

\* C2: an interrupt ends the run: when the handler's sys.exit takes effect the
\* process is Terminated (final summary printed, socket closed), and once a
\* final summary has been started no datagram is accounted and no periodic
\* report is printed any more.
C2_InterruptTerminates ==
    [][ /\ (mode = "handler" /\ ps.step = "l114" /\ mode' # "handler")
            => (pc' = "done" /\ ~sock_open' /\ final_completed' >= 1)
        /\ final_started > 0
            => (packets_received' = packets_received
                /\ n_periodic' = n_periodic) ]_vars

\* C3: a run that ends before any datagram was decoded (both bounds unset)
\* has printed a complete final summary with expected = 0, missing = 0 and
\* loss = 0%, and ended without an error.
C3_EmptySessionSummary ==
    (pc = "done" /\ IsNone(min_seq) /\ IsNone(max_seq))
        => /\ exit_exc = "SystemExit"
           /\ final_completed >= 1
           /\ ~IsNone(last_final)
           /\ Val(last_final).expected = 0
           /\ Val(last_final).missing = 0
           /\ FracEq(Val(last_final).loss_percent, Zero)

\* C4: whenever a report is being produced (print_stats is running, called by
\* the loop or by the SIGINT handler), the statistics are those of a whole
\* number of datagrams: the state is what accounting the first k received
\* datagrams completely, and the others not at all, leaves.
C4_ReportsSeeWholeDatagrams ==
    mode # "main"
        => \E k \in 0..Len(rx) : Tracker = AccountAll(SubSeq(rx, 1, k))

\* C5: between loop iterations, duplicates is the number of decoded datagrams
\* whose sequence number an earlier datagram of the run had already carried.
C5_DuplicatesCount ==
    AtLoopBoundary => duplicates = Repeats(decoded)

\* C6: every report just printed shows missing = max(0, expected - received)
\* and loss = 100 * missing / expected (0 when expected <= 0), a loss between
\* 0 and 100; expected and received are those of the state reported on.
LossAsClaimed(loss) ==
    LET expected == Expected(min_seq, max_seq)
        missing == Max(0, expected - Cardinality(sequence_numbers))
    IN /\ IF expected > 0
          THEN loss[1] * expected = 100 * missing * loss[2]
          ELSE loss[1] = 0
       /\ 0 <= loss[1]
       /\ loss[1] <= 100 * loss[2]

C6_ReportedLoss ==
    InPs("l108")
        => IF ps.final
           THEN /\ Val(last_final).expected = Expected(min_seq, max_seq)
                /\ Val(last_final).missing =
                     Max(0, Expected(min_seq, max_seq)
                              - Cardinality(sequence_numbers))
                /\ LossAsClaimed(Val(last_final).loss_percent)
           ELSE LossAsClaimed(Val(last_periodic).loss_percent)

\* C7: between loop iterations min_seq and max_seq are both unset or both
\* set; when set they are the least and the greatest member of the seen set,
\* min_seq <= max_seq, and the seen set has at most max_seq - min_seq + 1
\* members.
C7_BoundsInvariant ==
    AtLoopBoundary
        => /\ IsNone(min_seq) <=> IsNone(max_seq)
           /\ IsNone(min_seq) => sequence_numbers = {}
           /\ ~IsNone(min_seq) /\ ~IsNone(max_seq)
                => /\ Val(min_seq) <= Val(max_seq)
                   /\ sequence_numbers # {}
                   /\ Val(min_seq) = SetMin(sequence_numbers)
                   /\ Val(max_seq) = SetMax(sequence_numbers)
                   /\ Cardinality(sequence_numbers)
                        <= Val(max_seq) - Val(min_seq) + 1

\* The state scenario A is about: a fresh session in which the datagrams
\* decoded are 0, 1, 2, 1, 4 in that order and each one's accounting has run
\* to its end.
AfterScenarioA ==
    /\ AtLoopBoundary
    /\ decoded = <<0, 1, 2, 1, 4>>
    /\ observed = decoded

ScenarioAState(ooo) ==
    /\ duplicates = 1
    /\ out_of_order = ooo
    /\ min_seq = Some(0)
    /\ max_seq = Some(4)
    /\ Cardinality(sequence_numbers) = 4
    /\ Expected(min_seq, max_seq) = 5
    /\ Received(min_seq, max_seq, sequence_numbers) = Some(4)
    /\ Missing(Expected(min_seq, max_seq), Cardinality(sequence_numbers)) = 1
    /\ FracEq(LossPercent(min_seq, max_seq, sequence_numbers), Frac(20, 1))

\* C8 as stated: after scenario A, duplicates = 1, out_of_order = 0,
\* min_seq = 0, max_seq = 4, received = 4, expected = 5, missing = 1,
\* loss = 20%.
C8_ScenarioA_Stated == AfterScenarioA => ScenarioAState(0)

\* C8 as amended: the same with out_of_order = 1 (the duplicate 1 arrives
\* right after 2, and 1 < 2).
C8_ScenarioA == AfterScenarioA => ScenarioAState(1)

C8_Witness == AfterScenarioA /\ duplicates = 1 /\ out_of_order = 1

\* C9: outside the two statements that append and evict, the rate window
\* holds at most 10 samples, and they are the most recent samples ever
\* appended, oldest first.
LastN(q, n) == IF Len(q) <= n THEN q ELSE SubSeq(q, Len(q) - n + 1, Len(q))

C9_RateWindow ==
    (mode = "main" \/ ps.step \notin {"l50", "l60"})
        => /\ Len(one_sec_rates) <= WindowCap
           /\ one_sec_rates = LastN(hist, WindowCap)

\* C10: a datagram whose prefix does not decode adds 1 to packets_received
\* and its length to bytes_received and leaves the seen set, min_seq,
\* max_seq, last_seq_num, duplicates and out_of_order as they were when it
\* arrived; the parse error never ends the run.
C10_UndecodableDatagram ==
    /\ (~IsNone(pre) /\ IsNone(Decode(data)))
         => /\ last_seq_num = Val(pre).last_seq_num
            /\ out_of_order = Val(pre).out_of_order
            /\ duplicates = Val(pre).duplicates
            /\ sequence_numbers = Val(pre).sequence_numbers
            /\ min_seq = Val(pre).min_seq
            /\ max_seq = Val(pre).max_seq
            /\ pc \in {"l127", "l128", "l156", "l158", "l121"}
                 => /\ packets_received = Val(pre).packets_received + 1
                    /\ bytes_received = Val(pre).bytes_received + Len(data)
    /\ exit_exc # "ValueError"

C10_Witness ==
    /\ InMain("l156")
    /\ ~IsNone(pre)
    /\ IsNone(Decode(data))
    /\ sequence_numbers # {}
    /\ packets_received = 2

\* A datagram the wire format rules out: no ':' in it, or a prefix that is
\* not a non-negative decimal number.
HasDelimiter(d) == \E i \in 1..Len(d) : d[i] = ":"
Malformed(d) == ~HasDelimiter(d) \/ ~AllDigits(SplitFirst(d))

\* C11: a datagram with no ':' or with a prefix that is not a non-negative
\* decimal number is a parse error: it never enters the seen set and never
\* changes min_seq, max_seq, last_seq_num, duplicates or out_of_order.
C11_MalformedNeverTracked ==
    (~IsNone(pre) /\ Malformed(data))
        => /\ sequence_numbers = Val(pre).sequence_numbers
           /\ min_seq = Val(pre).min_seq
           /\ max_seq = Val(pre).max_seq
           /\ last_seq_num = Val(pre).last_seq_num
           /\ duplicates = Val(pre).duplicates
           /\ out_of_order = Val(pre).out_of_order

\* C12: every datagram the sender puts on the wire is exactly as long as the
\* size chosen for it (the value line 61 adds to bytes_sent) whenever that
\* size is at least the length of the prefix "<seq>:".
C12_DatagramLength ==
    (~IsNone(sent) /\ Val(sent).size >= Len(Prefix(Val(sent).seq)))
        => Len(Val(sent).data) = Val(sent).size

\* C13: a packet whose chosen size is smaller than the length of its prefix
\* "<seq>:" is not sent (its construction fails); no datagram on the wire
\* decodes to another sequence number than the one it was given.
C13_ShortSizeRejected ==
    ~IsNone(sent)
        => /\ Val(sent).size >= Len(Prefix(Val(sent).seq))
           /\ Decode(Val(sent).data) = Some(Val(sent).seq)

\* C14: round trip.  A datagram the sender built for sequence number n with
\* a size the prefix "<n>:" fits in is decoded by the receiver (split on ':',
\* int of the first field) as n.
C14_RoundTrip ==
    (~IsNone(sent) /\ Len(Prefix(Val(sent).seq)) <= Val(sent).size)
        => Decode(Val(sent).data) = Some(Val(sent).seq)

\* A two-digit sequence number went out with filler behind it and decodes.
C14_Witness ==
    /\ ~IsNone(sent)
    /\ Val(sent).seq = 10
    /\ Val(sent).size = 5
    /\ Val(sent).data = <<"1", "0", ":", "X">>
    /\ Decode(Val(sent).data) = Some(10)

\* C16: the send loop is left without an interrupt or an error only when
\* the duration has elapsed; and however it is left (duration reached,
\* Ctrl+C, or an error raised while a packet is built or sent), the run ends
\* with the socket closed and the test summary printed exactly once.
C16_SenderExit ==
    /\ (/\ s_pc \in FinallyClause \cup {"done"}
        /\ s_pending = "none"
        /\ s_exc = "none"
        /\ stopped_by_user = 0) => s_clock >= end_time
    /\ (s_pc = "done" /\ ~late_interrupt)
          => (~s_sock_open /\ summary_completed = 1)
    /\ summary_completed <= 1

\* C15: reporting is not starved by silence.  When a receive wait has ended
\* in a timeout, at least 1 second has passed since the last report, and the
\* next thing the loop does in that iteration is to produce a periodic
\* report (unless an interrupt arrives first); a report begun by the loop
\* prints its line unless an interrupt arrives first.
C15_ReportAfterTimeout ==
    [][ /\ (InMain("l156") /\ IsNone(pre))
            => /\ clock - last_report_time >= ReportTicks
               /\ mode' \in {"periodic", "handler"}
        /\ (mode = "periodic" /\ ps.step = "l85")
            => (n_periodic' = n_periodic + 1 \/ mode' = "handler") ]_vars

\* The fourth timeout in a row of a run in which nothing has arrived, three
\* periodic reports printed.
C15_Witness ==
    /\ InMain("l156")
    /\ IsNone(pre)
    /\ rx = <<>>
    /\ n_periodic = 3
    /\ clock = 4 * TimeoutTicks

\* C17: producing a report is read-only for the counters and the sequence
\* tracking: no step taken while print_stats (or the handler that calls it)
\* runs, and no call of it, changes packets_received, bytes_received, the
\* seen set, min_seq, max_seq, last_seq_num, duplicates or out_of_order; and
\* a report printed when no datagram has arrived since the report before it
\* shows the same expected, received, missing and loss.
C17_ReportsReadOnly ==
    [][ /\ (mode # "main" \/ mode' # "main")
            => UNCHANGED <<countVars, trackerVars>>
        /\ (/\ InPs("l85")
            /\ nsignals' = nsignals
            /\ ~IsNone(last_shown)
            /\ Val(last_shown).at = Len(rx))
            => /\ Val(last_shown').expected = Val(last_shown).expected
               /\ Val(last_shown').received = Val(last_shown).received
               /\ Val(last_shown').loss_percent = Val(last_shown).loss_percent
      ]_vars

\* A periodic report that counted a datagram, then a final summary begun
\* with nothing received in between.
C17_Witness ==
    /\ InPs("l94")
    /\ n_periodic = 1
    /\ final_started = 1
    /\ Len(rx) = 1
    /\ sequence_numbers # {}
    /\ Val(last_periodic).pps[1] > 0
    /\ Val(last_shown).at = 1
    /\ Val(last_shown).received = Some(1)

\* The entries of a sequence that are smaller than the entry before them.
Descents(q) == Cardinality({i \in 2..Len(q) : q[i] < q[i - 1]})

\* C18: between loop iterations, out_of_order is the number of decoded
\* datagrams whose sequence number is strictly smaller than that of the
\* decoded datagram just before them (a duplicate or not); the first decoded
\* datagram never counts.
C18_OutOfOrderCount ==
    AtLoopBoundary => out_of_order = Descents(decoded)

\* The received datagrams whose prefix does not decode.
Undecodable(log) == Cardinality({i \in 1..Len(log) : IsNone(Decode(log[i]))})

\* C19: between loop iterations packets_received is the size of the seen
\* set plus duplicates plus the number of received datagrams that failed to
\* decode; so neither duplicates nor the size of the seen set exceeds
\* packets_received.
C19_AccountingIdentity ==
    AtLoopBoundary
        => /\ packets_received
                = Cardinality(sequence_numbers) + duplicates + Undecodable(rx)
           /\ duplicates <= packets_received
           /\ Cardinality(sequence_numbers) <= packets_received

\* C20: the reports partition the traffic.  When a report returns (line 110
\* done) last_packets = packets_received and last_bytes = bytes_received, and
\* the deltas of all the reports printed so far add up to these totals: each
\* datagram is in the delta of exactly one report.  A periodic report is
\* printed only when at least 1 second has passed since the report before.
C20_ReportsPartitionTraffic ==
    [][ /\ (InPs("l110") /\ nsignals' = nsignals)
            => /\ last_packets' = packets_received'
               /\ last_bytes' = bytes_received'
               /\ sum_deltas' = <<packets_received', bytes_received'>>
        /\ n_periodic' = n_periodic + 1
            => ps.now - last_report_time >= ReportTicks ]_vars

====
